---- MODULE Spec2Model ----
(***************************************************************************)
(* Durable job queue of tg-archive-keeper: the jobs/files tables of        *)
(* app/database.py, the worker loop of app/worker.py and the background    *)
(* download tasks of app/bot.py, sharing one SQLite store.                 *)
(*                                                                         *)
(* Time is the value of SQLite's datetime('now') in seconds.  Every        *)
(* duration of the program (backoff 30*2^n, cap 21600, stale minutes*60)   *)
(* is a multiple of 30 s, so the clock advances in steps of TickStep.      *)
(***************************************************************************)
EXTENDS Integers, Sequences, FiniteSets, TLC

VARIABLES now, jobs, files, disk, wpc, wjob, recovered, btask,
          download_failures, md_failed, bk, att,
          messages, message_files, md_messages, up, loc, md_complete, sv

vars == <<now, jobs, files, disk, wpc, wjob, recovered, btask, download_failures, md_failed, bk, att,
          messages, message_files, md_messages, up, loc, md_complete, sv>>

---------------------------------------------------------------------------
(* Bounds of the model and configured values *)

MaxJobs == 2
MaxTime == 150
MAX_ATTEMPTS == 2
STALE_JOB_MINUTES == 1
\* the environment setting (default 4), set below MaxJobs so that tasks have to wait
MAX_CONCURRENT_DOWNLOADS == 1
BackoffBase == 30
BackoffCap == 21600
MaxBackoffAttempts == 12
MaxRecords == 2
\* length of a calendar month on the clock of the model
MonthSeconds == 60

TickStep == BackoffBase

Files == {"fA", "fB"}

\* inbound messages, by (chat id, message id)
Msgs == {"m1", "m2", "m3", "m4", "m5"}
Workers == {"w1", "w2"}

NoTime == -1
NoJob == [id |-> 0, file_id |-> "null", attempts |-> 0]

ActiveStatus == {"QUEUED", "RUNNING", "RETRY"}
JobIds == 1..Len(jobs)

---------------------------------------------------------------------------
(* Pure helpers *)

RECURSIVE Pow2(_)
Pow2(n) == IF n = 0 THEN 1 ELSE 2 * Pow2(n - 1)

Min(a, b) == IF a <= b THEN a ELSE b

\* mutant: the backoff is not capped
calculate_backoff_NoCap(attempts) == Pow2(attempts) * BackoffBase

calculate_backoff(attempts) == Min(Pow2(attempts) * BackoffBase, BackoffCap)

\* mutant: the partial unique index is missing
IndexOk_NoIndex(js) == TRUE

\* idx_jobs_one_active_per_file: would table js violate the partial unique index?
IndexOk(js) ==
    \A i, k \in 1..Len(js) :
        (i # k /\ js[i].file_id = js[k].file_id
              /\ js[i].status \in ActiveStatus /\ js[k].status \in ActiveStatus) => FALSE

\* fm.verify_file(path, expected_size): the artifact exists and has the declared size
verify_file(f) == disk[f] = "good"

\* no call of calculate_backoff is being looked at
NoBackoff == [attempts |-> 0, later |-> 0, backoff |-> NoTime, backoff_later |-> NoTime]

\* no download attempt is being looked at
NoAttempt == [by |-> "none"]

\* no call of upsert_file is being looked at
NoUpsert == [by |-> "none"]

\* no call of get_archive_path is being looked at
NoLocate == [by |-> "none"]

\* no call of save_file is being looked at
NoSave == [by |-> "none"]

---------------------------------------------------------------------------
(* Download fallback chain (bot.py download_file, file_manager.py, worker.py) *)

\* Python's None among strings, and the strings Python's "not x" holds for
None == "null"
Falsy(x) == x \in {None, ""}

\* an Optional[int] that is None is written 0: "not n" holds for both
FalsyInt(n) == n = 0

\* None where a URL is expected
NoUrl == <<>>

DigitChar(d) == <<"0", "1", "2", "3", "4", "5", "6", "7", "8", "9">>[d + 1]

RECURSIVE Digits(_)
Digits(n) == IF n < 10 THEN <<DigitChar(n)>> ELSE Digits(n \div 10) \o <<DigitChar(n % 10)>>

\* str(n) of an integer, as its sequence of characters
str(n) == IF n < 0 THEN <<"-">> \o Digits(0 - n) ELSE Digits(n)

startswith(s, prefix) == Len(s) >= Len(prefix) /\ SubSeq(s, 1, Len(prefix)) = prefix

\* chat_id_str[k:]
DropFirst(s, k) == SubSeq(s, k + 1, Len(s))

\* mutant: only the sign is removed, the -100 prefix of supergroups and channels is kept
CleanChatId_MinusOnly(source_chat_id) ==
    LET chat_id_str == str(source_chat_id) IN
    IF startswith(chat_id_str, <<"-">>) THEN DropFirst(chat_id_str, 1) ELSE chat_id_str

\* the chat id as it appears in a t.me/c/ URL
CleanChatId(source_chat_id) ==
    LET chat_id_str == str(source_chat_id) IN
    IF startswith(chat_id_str, <<"-", "1", "0", "0">>) THEN DropFirst(chat_id_str, 4)
    ELSE IF startswith(chat_id_str, <<"-">>) THEN DropFirst(chat_id_str, 1)
    ELSE chat_id_str

PublicUrl(username, original_message_id) == <<"https://t.me/", username, "/">> \o str(original_message_id)

PrivateUrl(source_chat_id, original_message_id) ==
    <<"https://t.me/c/">> \o CleanChatId(source_chat_id) \o <<"/">> \o str(original_message_id)

\* mutant: build_message_url does not look at original_message_id
build_message_url_NoIdCheck(source_username, source_chat_id, original_message_id) ==
    IF ~Falsy(source_username) THEN PublicUrl(source_username, original_message_id)
    ELSE IF ~FalsyInt(source_chat_id) THEN PrivateUrl(source_chat_id, original_message_id)
    ELSE NoUrl

\* fm.build_message_url: the URL handed to tdl, or None
build_message_url(source_username, source_chat_id, original_message_id) ==
    IF FalsyInt(original_message_id) THEN NoUrl
    ELSE IF ~Falsy(source_username) THEN PublicUrl(source_username, original_message_id)
    ELSE IF ~FalsyInt(source_chat_id) THEN PrivateUrl(source_chat_id, original_message_id)
    ELSE NoUrl

\* the URL built inside worker.download_with_tdl, or None
worker_message_url(source_username, source_chat_id, original_message_id) ==
    IF ~FalsyInt(original_message_id) /\ ~FalsyInt(source_chat_id)
    THEN IF ~Falsy(source_username) THEN PublicUrl(source_username, original_message_id)
         ELSE PrivateUrl(source_chat_id, original_message_id)
    ELSE NoUrl

\* the error string a helper returns for an outcome that is not "ok"
ErrorOf(outcome) == IF outcome = "empty_error" THEN "" ELSE "error"

\* bot.download_file: (success, method, bot_api_error, tdl_error) and the methods it invoked
download_file(inp) ==
    IF inp.primary = "ok"
    THEN [success |-> TRUE, method |-> "bot_api", bot_api_error |-> None, tdl_error |-> None,
          calls |-> <<"bot_api">>, message_url |-> NoUrl]
    ELSE LET bot_error == ErrorOf(inp.primary)
             message_url == build_message_url(inp.username, inp.source_chat_id, inp.original_message_id)
         IN IF message_url = NoUrl
            THEN [success |-> FALSE, method |-> "failed", bot_api_error |-> bot_error,
                  tdl_error |-> "Cannot build message URL", calls |-> <<"bot_api">>,
                  message_url |-> message_url]
            ELSE IF inp.tdl = "ok"
            THEN [success |-> TRUE, method |-> "tdl", bot_api_error |-> bot_error, tdl_error |-> None,
                  calls |-> <<"bot_api", "tdl">>, message_url |-> message_url]
            ELSE [success |-> FALSE, method |-> "failed", bot_api_error |-> bot_error,
                  tdl_error |-> ErrorOf(inp.tdl), calls |-> <<"bot_api", "tdl">>,
                  message_url |-> message_url]

\* process_download_job: the error_type of a failed download_file
error_type(bot_error, tdl_error) ==
    IF Falsy(bot_error) THEN "TDL_ONLY"
    ELSE IF Falsy(tdl_error) THEN "BOT_API_ONLY"
    ELSE "BOTH_FAILED"

\* worker.download_with_tdl: (success, error) and the methods it invoked
download_with_tdl(inp) ==
    LET message_url == worker_message_url(inp.username, inp.source_chat_id, inp.original_message_id) IN
    IF message_url = NoUrl
    THEN [success |-> FALSE, error |-> "No original message info available for tdl download",
          calls |-> <<>>, message_url |-> message_url]
    ELSE IF inp.tdl = "ok"
    THEN [success |-> TRUE, error |-> None, calls |-> <<"tdl">>, message_url |-> message_url]
    ELSE [success |-> FALSE, error |-> ErrorOf(inp.tdl), calls |-> <<"tdl">>,
          message_url |-> message_url]

---------------------------------------------------------------------------
(* Archive paths (app/file_manager.py); a str is the sequence of its characters, and an *)
(* Optional[str] that is None is written as the empty string: "if x" is false for both  *)

\* default of sanitize_filename's parameter
max_length == 64

\* the characters the regular expression [^\u4e00-\u9fffA-Za-z0-9._\-] keeps, among those used here
SafeChars == {"A", "B", "C", "D", "T", "b", "i", "n", "_", ".", "-"}

\* re.sub(r"_+", "_", name)
RECURSIVE CollapseUnderscores(_)
CollapseUnderscores(s) ==
    IF Len(s) < 2 THEN s
    ELSE IF s[1] = "_" /\ s[2] = "_" THEN CollapseUnderscores(Tail(s))
    ELSE <<s[1]>> \o CollapseUnderscores(Tail(s))

\* name.strip(chars)
RECURSIVE strip(_, _)
strip(s, chars) ==
    IF s # <<>> /\ s[1] \in chars THEN strip(Tail(s), chars)
    ELSE IF s # <<>> /\ s[Len(s)] \in chars THEN strip(SubSeq(s, 1, Len(s) - 1), chars)
    ELSE s

sanitize_filename(name) ==
    IF name = <<>> THEN <<>>
    ELSE LET spaced == [i \in 1..Len(name) |-> IF name[i] = " " THEN "_" ELSE name[i]]
             kept == SelectSeq(spaced, LAMBDA c : c \in SafeChars)
             clean == strip(CollapseUnderscores(kept), {"_", "."})
             dots == {i \in 1..Len(clean) : clean[i] = "."}
             dot == IF dots = {} THEN 0 ELSE CHOOSE i \in dots : \A k \in dots : k <= i
             ext == SubSeq(clean, dot + 1, Len(clean))
         IN IF Len(clean) <= max_length THEN clean
            ELSE IF dot # 0 /\ Len(ext) <= 10
            THEN SubSeq(clean, 1, Min(dot - 1, max_length - Len(ext) - 1)) \o <<".">> \o ext
            ELSE SubSeq(clean, 1, max_length)

\* get_archive_path: the full path below FILES_PATH, as <<source_type, dir_name, filename>>
get_archive_path(source_type, chat_id, title, file_unique_id, original_name) ==
    LET sanitized_title == sanitize_filename(title)
        dir_name == IF sanitized_title # <<>> THEN str(chat_id) \o <<"_">> \o sanitized_title
                    ELSE str(chat_id)
        filename == IF original_name # <<>>
                    THEN file_unique_id \o <<"_", "_">> \o sanitize_filename(original_name)
                    ELSE file_unique_id \o <<".", "b", "i", "n">>
    IN <<source_type, dir_name, filename>>

---------------------------------------------------------------------------
(* Metadata store operations (app/database.py) *)

\* mutant: the SELECT of pick_and_lock_job looks for QUEUED jobs only
Eligible_QueuedOnly(j) ==
    /\ jobs[j].status = "QUEUED"
    /\ jobs[j].available_at <= now

\* WHERE status IN ('QUEUED','RETRY') AND available_at <= datetime('now')
Eligible(j) ==
    /\ jobs[j].status \in {"QUEUED", "RETRY"}
    /\ jobs[j].available_at <= now

\* mutant: the SELECT has no ORDER BY created_at
PickCandidates_Unordered == {j \in JobIds : Eligible(j)}

\* ORDER BY created_at LIMIT 1: the rows the SELECT may return
PickCandidates ==
    {j \in JobIds : Eligible(j) /\ \A k \in JobIds : Eligible(k) => jobs[j].created_at <= jobs[k].created_at}

\* mutant: the locking UPDATE does not set status='RUNNING'
LockedRow_StatusKept(j, w) ==
    [jobs[j] EXCEPT !.locked_by = w, !.locked_at = now, !.attempts = jobs[j].attempts + 1]

\* the row after the locking UPDATE of pick_and_lock_job
LockedRow(j, w) ==
    [jobs[j] EXCEPT !.status = "RUNNING", !.locked_by = w, !.locked_at = now,
                    !.attempts = jobs[j].attempts + 1]

\* the row of insert_job's INSERT: status and attempts by the column defaults
JobRow(f) ==
    [file_id |-> f, status |-> "QUEUED", attempts |-> 0, last_error |-> "null",
     available_at |-> now, locked_by |-> "null", locked_at |-> NoTime, created_at |-> now]

\* insert_job: the table after the INSERT (the caller checks the index)
insert_job(f) == Append(jobs, JobRow(f))

update_job_done(j) == [jobs EXCEPT ![j].status = "DONE"]

\* mutant: the backoff is not added to available_at
update_job_retry_NoBackoff(j, backoff) ==
    [jobs EXCEPT ![j].status = "RETRY", ![j].last_error = "error", ![j].available_at = now]

update_job_retry(j, backoff) ==
    [jobs EXCEPT ![j].status = "RETRY", ![j].last_error = "error",
                 ![j].available_at = now + backoff]

\* mutant: the UPDATE of update_job_failed changes no row
update_job_failed_Nothing(j) == jobs

update_job_failed(j) == [jobs EXCEPT ![j].status = "FAILED", ![j].last_error = "error"]

\* mutant: the WHERE clause does not look at locked_at
Stale_AnyRunning(j) == jobs[j].status = "RUNNING"

\* WHERE status='RUNNING' AND locked_at < datetime('now', '-N minutes')
Stale(j) ==
    /\ jobs[j].status = "RUNNING"
    /\ jobs[j].locked_at # NoTime
    /\ jobs[j].locked_at < now - STALE_JOB_MINUTES * 60

\* mutant: the UPDATE of recover_stale_jobs changes no row
recover_stale_jobs_Nothing == jobs

recover_stale_jobs ==
    [j \in JobIds |-> IF Stale(j)
                      THEN [jobs[j] EXCEPT !.status = "RETRY", !.available_at = now]
                      ELSE jobs[j]]

\* SQL NULL in an INTEGER column
NullInt == -1

\* SQLite's COALESCE(x, y): the first argument that is not NULL
COALESCE(x, y, null) == IF x # null THEN x ELSE y

\* no row of the files table for a file_unique_id
NoRow ==
    [status |-> "ABSENT", last_seen_file_id |-> None, file_size |-> NullInt, mime_type |-> None,
     original_name |-> None, local_path |-> None, local_size |-> NullInt, sha256 |-> None]

\* upsert_file: the row of the file after INSERT ... ON CONFLICT(file_unique_id) DO UPDATE.
\* The store of the processes above keeps only status and local_path of a row
upsert_file(row, a) ==
    IF row.status = "ABSENT"
    THEN [NoRow EXCEPT !.status = "NEW", !.last_seen_file_id = a.last_seen_file_id,
                       !.file_size = a.file_size, !.mime_type = a.mime_type,
                       !.original_name = a.original_name]
    ELSE [row EXCEPT !.last_seen_file_id = a.last_seen_file_id,
                     !.file_size = COALESCE(a.file_size, @, NullInt),
                     !.mime_type = COALESCE(a.mime_type, @, None),
                     !.original_name = COALESCE(a.original_name, @, None)]

update_file_downloaded(f) == [files EXCEPT ![f] = [status |-> "DOWNLOADED", local_path |-> TRUE]]

update_file_failed(f) == [files EXCEPT ![f].status = "FAILED"]

\* get_markdown_path: the month file of a timestamp
get_markdown_path(timestamp) == timestamp \div MonthSeconds

\* message["received_at"] of the message job j was created for: handle_message takes
\* received_at and inserts the job in the same call
received_at(j) == jobs[j].created_at

\* md.append_job_complete: one more COMPLETE block for job j, in the month file of received_at
append_job_complete(j) == [md_complete EXCEPT ![j] = Append(@, get_markdown_path(received_at(j)))]

\* md.append_job_failed: one more FAILED block for job j in the audit log
append_job_failed(j) == [md_failed EXCEPT ![j] = md_failed[j] + 1]

\* insert_download_failure is called by bot.py and is not defined in database.py
insert_download_failure(j) == [download_failures EXCEPT ![j] = download_failures[j] + 1]

\* update_job_running is called by bot.py and is not defined in database.py
update_job_running(j) == [jobs EXCEPT ![j].status = "RUNNING"]

\* get_pending_jobs is called by bot.py and is not defined in database.py
get_pending_jobs == {j \in JobIds : jobs[j].status \in {"QUEUED", "RUNNING"}}

---------------------------------------------------------------------------
\* the empty store and the processes before they start
InitStore ==
    /\ now = 0
    /\ jobs = <<>>
    /\ files = [f \in Files |-> [status |-> "ABSENT", local_path |-> FALSE]]
    /\ disk = [f \in Files |-> "none"]
    /\ wpc = [w \in Workers |-> "init"]
    /\ wjob = [w \in Workers |-> NoJob]
    /\ recovered = [w \in Workers |-> 0]
    /\ btask = [j \in 1..MaxJobs |-> "none"]
    /\ download_failures = [j \in 1..MaxJobs |-> 0]
    /\ md_failed = [j \in 1..MaxJobs |-> 0]
    /\ md_complete = [j \in 1..MaxJobs |-> <<>>]
    /\ messages = {}
    /\ message_files = {}
    /\ md_messages = {}

Init ==
    /\ InitStore
    /\ bk = NoBackoff
    /\ att = NoAttempt
    /\ sv = NoSave
    /\ up = NoUpsert
    /\ loc = NoLocate

\* the clock of datetime('now')
Tick ==
    /\ now + TickStep <= MaxTime
    /\ now' = now + TickStep
    /\ UNCHANGED <<jobs, files, disk, wpc, wjob, recovered, btask, download_failures, md_failed, bk, att, messages, message_files, md_messages, up, loc, md_complete, sv>>


---------------------------------------------------------------------------
(* Ingestion (app/bot.py handle_message) *)

\* extract_file_info: the attachments of each message, in the order of the function.
\* m3 is an animation, which Telegram also exposes as the document of the message
file_infos(m) ==
    CASE m = "m1" -> <<[kind |-> "document", file_unique_id |-> "fA"]>>
      [] m = "m2" -> <<[kind |-> "document", file_unique_id |-> "fB"]>>
      [] m = "m3" -> <<[kind |-> "document", file_unique_id |-> "fA"],
                       [kind |-> "animation", file_unique_id |-> "fA"]>>
      [] m = "m4" -> <<[kind |-> "document", file_unique_id |-> "fB"]>>
      [] m = "m5" -> <<[kind |-> "document", file_unique_id |-> "fB"],
                       [kind |-> "animation", file_unique_id |-> "fB"]>>

\* parse_forward_source: the chat id of the forward origin, 0 for a message that is not
\* forwarded (m4, m5) or is forwarded from a hidden user
source_chat_id(m) == IF m \in {"m4", "m5"} THEN 0 ELSE -1005

\* file_info["file_size"], the declared size in MB
file_size(f) == IF f = "fA" THEN 5 ELSE 50

\* mutant: the handler awaits process_download_job instead of creating a task
schedule_download_Awaited(tasks, j) == [tasks EXCEPT ![j] = "download"]

\* schedule_download: asyncio.create_task(process_download_job(...)), not awaited
schedule_download(tasks, j) == [tasks EXCEPT ![j] = "sched"]

\* the loop over file_infos: upsert_file, insert_message_file, the already-downloaded
\* check, the source lookup, insert_job and schedule_download.  Every call commits on its
\* own, so the rows written before an exception stay
RECURSIVE ProcessFiles(_, _, _)
ProcessFiles(st, m, infos) ==
    IF infos = <<>> \/ st.raised THEN st
    ELSE LET f == Head(infos).file_unique_id
             fs == IF st.files[f].status = "ABSENT"
                   THEN [st.files EXCEPT ![f].status = "NEW"]
                   ELSE st.files
             linked == [st EXCEPT !.files = fs,
                                  !.message_files = @ \cup {<<m, f, Head(infos).kind>>}]
             skip == fs[f].status = "DOWNLOADED" /\ fs[f].local_path /\ disk[f] # "none"
             js == Append(st.jobs, JobRow(f))
         IN ProcessFiles(
                IF skip THEN linked
                \* source is the default dict, which has no "title": KeyError
                ELSE IF source_chat_id(m) = 0 THEN [linked EXCEPT !.raised = TRUE]
                ELSE IF IndexOk(js)
                THEN [linked EXCEPT !.jobs = js, !.btask = schedule_download(@, Len(js))]
                ELSE linked,
                m, Tail(infos))

\* handle_message for message m: insert_message, the loop over its attachments and the
\* audit entry; any exception ends the handler and is only logged
HandleMessage(m) ==
    /\ Len(jobs) < MaxJobs
    /\ IF m \in messages
       \* UNIQUE(tg_chat_id, tg_message_id): insert_message raises IntegrityError
       THEN UNCHANGED <<messages, message_files, md_messages, files, jobs, btask>>
       ELSE LET st == ProcessFiles([files |-> files, message_files |-> message_files, jobs |-> jobs,
                                    btask |-> btask, raised |-> FALSE], m, file_infos(m))
            IN /\ messages' = messages \cup {m}
               /\ files' = st.files
               /\ message_files' = st.message_files
               /\ jobs' = st.jobs
               /\ btask' = st.btask
               /\ md_messages' = IF st.raised THEN md_messages ELSE md_messages \cup {m}
    /\ UNCHANGED <<now, disk, wpc, wjob, recovered, download_failures, md_failed, bk, att, up, loc, md_complete, sv>>

\* handle_message for a message not seen before, forwarded from a known source, with the
\* one attachment f; its Message and MessageFile rows are not kept in the model:
\* upsert_file, the already-downloaded check, insert_job and schedule_download
Ingest(f) ==
    /\ Len(jobs) < MaxJobs
    /\ LET fs == IF files[f].status = "ABSENT"
                 THEN [files EXCEPT ![f].status = "NEW"]
                 ELSE files
           skip == fs[f].status = "DOWNLOADED" /\ fs[f].local_path /\ disk[f] # "none"
           js == insert_job(f)
       IN /\ files' = fs
          /\ IF ~skip /\ IndexOk(js)
             THEN /\ jobs' = js
                  /\ btask' = schedule_download(btask, Len(js))
             ELSE UNCHANGED <<jobs, btask>>
    /\ UNCHANGED <<now, disk, wpc, wjob, recovered, download_failures, md_failed, bk, att, messages, message_files, md_messages, up, loc, md_complete, sv>>

---------------------------------------------------------------------------
(* Worker process (app/worker.py) *)

\* worker_loop startup: recover_stale_jobs, once, before the loop
WorkerStart(w) ==
    /\ wpc[w] = "init"
    /\ jobs' = recover_stale_jobs
    /\ recovered' = [recovered EXCEPT ![w] = Cardinality({j \in JobIds : Stale(j)})]
    /\ wpc' = [wpc EXCEPT ![w] = "loop"]
    /\ UNCHANGED <<now, files, disk, wjob, btask, download_failures, md_failed, bk, att, messages, message_files, md_messages, up, loc, md_complete, sv>>

\* pick_and_lock_job returns a job: the row read by the SELECT, before the UPDATE
PickJob(w) ==
    /\ wpc[w] = "loop"
    /\ \E j \in PickCandidates :
          /\ jobs' = [jobs EXCEPT ![j] = LockedRow(j, w)]
          /\ wjob' = [wjob EXCEPT ![w] = [id |-> j, file_id |-> jobs[j].file_id,
                                          attempts |-> jobs[j].attempts]]
    /\ wpc' = [wpc EXCEPT ![w] = "check"]
    /\ UNCHANGED <<now, files, disk, recovered, btask, download_failures, md_failed, bk, att, messages, message_files, md_messages, up, loc, md_complete, sv>>

\* pick_and_lock_job returns None: asyncio.sleep(5)
PickNone(w) ==
    /\ wpc[w] = "loop"
    /\ PickCandidates = {}
    /\ wpc' = [wpc EXCEPT ![w] = "sleep"]
    /\ wjob' = [wjob EXCEPT ![w] = NoJob]
    /\ UNCHANGED <<now, jobs, files, disk, recovered, btask, download_failures, md_failed, bk, att, messages, message_files, md_messages, up, loc, md_complete, sv>>

\* mutant: the loop runs recover_stale_jobs again after every sleep
Wake_Recovers(w) ==
    /\ wpc[w] = "sleep"
    /\ wpc' = [wpc EXCEPT ![w] = "loop"]
    /\ jobs' = recover_stale_jobs
    /\ UNCHANGED <<now, files, disk, wjob, recovered, btask, download_failures, md_failed, bk, att, messages, message_files, md_messages, up, loc, md_complete, sv>>

\* the sleep ends, next iteration of while True
Wake(w) ==
    /\ wpc[w] = "sleep"
    /\ wpc' = [wpc EXCEPT ![w] = "loop"]
    /\ UNCHANGED <<now, jobs, files, disk, wjob, recovered, btask, download_failures, md_failed, bk, att, messages, message_files, md_messages, up, loc, md_complete, sv>>

\* process_job: get_file_by_id and the already-downloaded short-circuit
WorkerCheck(w) ==
    /\ wpc[w] = "check"
    /\ LET f == wjob[w].file_id IN
         IF files[f].status = "DOWNLOADED" /\ files[f].local_path /\ verify_file(f)
         THEN /\ jobs' = update_job_done(wjob[w].id)
              /\ wpc' = [wpc EXCEPT ![w] = "loop"]
              /\ wjob' = [wjob EXCEPT ![w] = NoJob]
         ELSE /\ wpc' = [wpc EXCEPT ![w] = "download"]
              /\ UNCHANGED <<jobs, wjob>>
    /\ UNCHANGED <<now, files, disk, recovered, btask, download_failures, md_failed, bk, att, messages, message_files, md_messages, up, loc, md_complete, sv>>

\* process_job steps 1-2 raise: a File or Message row is not found, or a read fails
WorkerCheckRaises(w) ==
    /\ wpc[w] = "check"
    /\ wpc' = [wpc EXCEPT ![w] = "handler"]
    /\ UNCHANGED <<now, jobs, files, disk, wjob, recovered, btask, download_failures, md_failed, bk, att, messages, message_files, md_messages, up, loc, md_complete, sv>>

\* download_with_tdl returns; on success verify_file checks the size
WorkerDownload(w, outcome) ==
    /\ wpc[w] = "download"
    /\ LET f == wjob[w].file_id IN
         CASE outcome = "ok" ->
                /\ disk' = [disk EXCEPT ![f] = "good"]
                /\ wpc' = [wpc EXCEPT ![w] = "file_upd"]
           [] outcome = "mismatch" ->
                /\ disk' = [disk EXCEPT ![f] = "bad"]
                /\ wpc' = [wpc EXCEPT ![w] = "handler"]
           [] outcome = "fail" ->
                /\ disk' = disk
                /\ wpc' = [wpc EXCEPT ![w] = "handler"]
    /\ UNCHANGED <<now, jobs, files, wjob, recovered, btask, download_failures, md_failed, bk, att, messages, message_files, md_messages, up, loc, md_complete, sv>>

\* update_file_downloaded
WorkerFileDownloaded(w) ==
    /\ wpc[w] = "file_upd"
    /\ files' = update_file_downloaded(wjob[w].file_id)
    /\ wpc' = [wpc EXCEPT ![w] = "job_done"]
    /\ UNCHANGED <<now, jobs, disk, wjob, recovered, btask, download_failures, md_failed, bk, att, messages, message_files, md_messages, up, loc, md_complete, sv>>

\* update_job_done
WorkerJobDone(w) ==
    /\ wpc[w] = "job_done"
    /\ jobs' = update_job_done(wjob[w].id)
    /\ wpc' = [wpc EXCEPT ![w] = "log_done"]
    /\ UNCHANGED <<now, files, disk, wjob, recovered, btask, download_failures, md_failed, bk, att, messages, message_files, md_messages, up, loc, md_complete, sv>>

\* md.append_job_complete: appends, or raises into the except block
WorkerLogDone(w, raised) ==
    /\ wpc[w] = "log_done"
    /\ wpc' = [wpc EXCEPT ![w] = IF raised THEN "handler" ELSE "loop"]
    /\ wjob' = [wjob EXCEPT ![w] = IF raised THEN wjob[w] ELSE NoJob]
    /\ md_complete' = IF raised THEN md_complete ELSE append_job_complete(wjob[w].id)
    /\ UNCHANGED <<now, jobs, files, disk, recovered, btask, download_failures, md_failed, bk, att, messages, message_files, md_messages, up, loc, sv>>

\* except block of process_job: retry or fail permanently, by the attempts of the row read
WorkerHandler(w) ==
    /\ wpc[w] = "handler"
    /\ IF wjob[w].attempts >= MAX_ATTEMPTS
       THEN /\ jobs' = update_job_failed(wjob[w].id)
            /\ wpc' = [wpc EXCEPT ![w] = "fail_file"]
            /\ UNCHANGED wjob
       ELSE LET js == update_job_retry(wjob[w].id, calculate_backoff(wjob[w].attempts)) IN
            /\ wjob' = [wjob EXCEPT ![w] = NoJob]
            /\ IF IndexOk(js)
               THEN /\ jobs' = js
                    /\ wpc' = [wpc EXCEPT ![w] = "loop"]
               ELSE \* IntegrityError leaves process_job; worker_loop logs it and sleeps
                    /\ UNCHANGED jobs
                    /\ wpc' = [wpc EXCEPT ![w] = "sleep"]
    /\ UNCHANGED <<now, files, disk, recovered, btask, download_failures, md_failed, bk, att, messages, message_files, md_messages, up, loc, md_complete, sv>>

\* update_file_failed, then md.append_job_failed; no failure record is inserted
WorkerFileFailed(w) ==
    /\ wpc[w] = "fail_file"
    /\ files' = update_file_failed(wjob[w].file_id)
    /\ md_failed' = append_job_failed(wjob[w].id)
    /\ wpc' = [wpc EXCEPT ![w] = "loop"]
    /\ wjob' = [wjob EXCEPT ![w] = NoJob]
    /\ UNCHANGED <<now, jobs, disk, recovered, btask, download_failures, bk, att, messages, message_files, md_messages, up, loc, md_complete, sv>>

\* the worker process dies
WorkerCrash(w) ==
    /\ wpc[w] \notin {"init", "crashed"}
    /\ wpc' = [wpc EXCEPT ![w] = "crashed"]
    /\ wjob' = [wjob EXCEPT ![w] = NoJob]
    /\ recovered' = [recovered EXCEPT ![w] = 0]
    /\ UNCHANGED <<now, jobs, files, disk, btask, download_failures, md_failed, bk, att, messages, message_files, md_messages, up, loc, md_complete, sv>>

---------------------------------------------------------------------------
(* Background download tasks of the ingesting process (app/bot.py) *)

\* mutant: entering the download section takes no permit
Permits_Unlimited == MAX_CONCURRENT_DOWNLOADS

\* the value of download_semaphore: a task holds a permit from "async with" to its exit
Permits == MAX_CONCURRENT_DOWNLOADS - Cardinality({k \in 1..MaxJobs : btask[k] \notin {"none", "sched"}})

\* config.py: the sinks in effect for the list STORAGE_MODES and the WebDAV settings
StorageConfig(STORAGE_MODES, WEBDAV_ENABLED) ==
    LET local0 == "local" \in STORAGE_MODES
        webdav0 == "webdav" \in STORAGE_MODES
        downgraded == webdav0 /\ ~WEBDAV_ENABLED
        webdav1 == IF downgraded THEN FALSE ELSE webdav0
        local1 == IF downgraded /\ ~local0 THEN TRUE ELSE local0
    IN [SAVE_TO_LOCAL |-> IF ~local1 /\ ~webdav1 THEN TRUE ELSE local1,
        SAVE_TO_WEBDAV |-> webdav1]

\* STORAGE_MODE=webdav with the WebDAV settings present
WebdavOnly == StorageConfig({"webdav"}, TRUE)

\* save_file under configuration cfg: upload_ok is the result of upload_to_webdav,
\* unlink_ok whether local_path.unlink() went through; the result tells whether the
\* function reports success, whether the remote sink holds the artifact and whether the
\* local copy is gone
save_file(cfg, upload_ok, unlink_ok) ==
    LET errors == cfg.SAVE_TO_WEBDAV /\ ~upload_ok
    IN [success |-> ~errors,
        uploaded |-> cfg.SAVE_TO_WEBDAV /\ upload_ok,
        deleted |-> ~cfg.SAVE_TO_LOCAL /\ cfg.SAVE_TO_WEBDAV /\ ~errors /\ unlink_ok]

\* process_download_job enters the semaphore and calls update_job_running
BotBegin(j) ==
    /\ btask[j] = "sched"
    /\ Permits > 0
    /\ LET js == update_job_running(j) IN
         IF IndexOk(js)
         THEN /\ jobs' = js
              /\ btask' = [btask EXCEPT ![j] = "download"]
         ELSE /\ UNCHANGED jobs
              /\ btask' = [btask EXCEPT ![j] = "exc"]
    /\ UNCHANGED <<now, files, disk, wpc, wjob, recovered, download_failures, md_failed, bk, att, messages, message_files, md_messages, up, loc, md_complete, sv>>

\* mutant: download_file marks the File itself when it fails
BotDownload_MarksFile(j, outcome) ==
    /\ btask[j] = "download"
    /\ LET f == jobs[j].file_id IN
         /\ disk' = IF outcome = "fail" THEN disk
                    ELSE [disk EXCEPT ![f] = IF outcome = "ok" THEN "good" ELSE "bad"]
         /\ btask' = [btask EXCEPT ![j] = IF outcome = "fail" THEN "fail_file" ELSE "file_upd"]
         /\ files' = IF outcome = "fail" THEN update_file_failed(f) ELSE files
    /\ UNCHANGED <<now, jobs, wpc, wjob, recovered, download_failures, md_failed, bk, att, messages, message_files, md_messages, up, loc, md_complete, sv>>

\* download_file returns; a success is not verified against the declared size
BotDownload(j, outcome) ==
    /\ btask[j] = "download"
    /\ LET f == jobs[j].file_id IN
         CASE outcome = "ok" ->
                /\ disk' = [disk EXCEPT ![f] = "good"]
                /\ btask' = [btask EXCEPT ![j] = "file_upd"]
           [] outcome = "mismatch" ->
                /\ disk' = [disk EXCEPT ![f] = "bad"]
                /\ btask' = [btask EXCEPT ![j] = "file_upd"]
           [] outcome = "fail" ->
                /\ disk' = disk
                /\ btask' = [btask EXCEPT ![j] = "fail_file"]
    /\ UNCHANGED <<now, jobs, files, wpc, wjob, recovered, download_failures, md_failed, bk, att, messages, message_files, md_messages, up, loc, md_complete, sv>>

\* save_file and update_file_downloaded
BotFileDownloaded(j) ==
    /\ btask[j] = "file_upd"
    /\ files' = update_file_downloaded(jobs[j].file_id)
    /\ btask' = [btask EXCEPT ![j] = "job_done"]
    /\ UNCHANGED <<now, jobs, disk, wpc, wjob, recovered, download_failures, md_failed, bk, att, messages, message_files, md_messages, up, loc, md_complete, sv>>

\* save_file and update_file_downloaded in a process configured with the remote sink
\* only: the value save_file returns is not looked at
BotFileSaved(j, upload_ok) ==
    /\ btask[j] = "file_upd"
    /\ LET f == jobs[j].file_id IN
         /\ disk' = IF save_file(WebdavOnly, upload_ok, TRUE).deleted
                    THEN [disk EXCEPT ![f] = "none"] ELSE disk
         /\ files' = update_file_downloaded(f)
    /\ btask' = [btask EXCEPT ![j] = "job_done"]
    /\ UNCHANGED <<now, jobs, wpc, wjob, recovered, download_failures, md_failed, bk, att, messages, message_files, md_messages, up, loc, md_complete, sv>>

\* update_job_done
BotJobDone(j) ==
    /\ btask[j] = "job_done"
    /\ jobs' = update_job_done(j)
    /\ btask' = [btask EXCEPT ![j] = "log_done"]
    /\ UNCHANGED <<now, files, disk, wpc, wjob, recovered, download_failures, md_failed, bk, att, messages, message_files, md_messages, up, loc, md_complete, sv>>

\* md.append_job_complete: appends, or raises into the except block
BotLogDone(j, raised) ==
    /\ btask[j] = "log_done"
    /\ btask' = [btask EXCEPT ![j] = IF raised THEN "exc" ELSE "none"]
    /\ md_complete' = IF raised THEN md_complete ELSE append_job_complete(j)
    /\ UNCHANGED <<now, jobs, files, disk, wpc, wjob, recovered, download_failures, md_failed, bk, att, messages, message_files, md_messages, up, loc, sv>>

\* insert_download_failure and update_file_failed
BotFileFailed(j) ==
    /\ btask[j] = "fail_file"
    /\ download_failures[j] < MaxRecords
    /\ download_failures' = insert_download_failure(j)
    /\ files' = update_file_failed(jobs[j].file_id)
    /\ btask' = [btask EXCEPT ![j] = "fail_job"]
    /\ UNCHANGED <<now, jobs, disk, wpc, wjob, recovered, md_failed, bk, att, messages, message_files, md_messages, up, loc, md_complete, sv>>

\* update_job_failed on a failed download, whatever the attempts
BotJobFailed(j) ==
    /\ btask[j] = "fail_job"
    /\ jobs' = update_job_failed(j)
    /\ btask' = [btask EXCEPT ![j] = "log_failed"]
    /\ UNCHANGED <<now, files, disk, wpc, wjob, recovered, download_failures, md_failed, bk, att, messages, message_files, md_messages, up, loc, md_complete, sv>>

\* md.append_job_failed: appends, or raises into the except block
BotLogFailed(j, raised) ==
    /\ btask[j] = "log_failed"
    /\ md_failed' = IF raised THEN md_failed ELSE append_job_failed(j)
    /\ btask' = [btask EXCEPT ![j] = IF raised THEN "exc" ELSE "none"]
    /\ UNCHANGED <<now, jobs, files, disk, wpc, wjob, recovered, download_failures, bk, att, messages, message_files, md_messages, up, loc, md_complete, sv>>

\* except Exception: update_job_failed
BotException(j) ==
    /\ btask[j] = "exc"
    /\ jobs' = update_job_failed(j)
    /\ btask' = [btask EXCEPT ![j] = "none"]
    /\ UNCHANGED <<now, files, disk, wpc, wjob, recovered, download_failures, md_failed, bk, att, messages, message_files, md_messages, up, loc, md_complete, sv>>

\* the ingesting process restarts: its tasks are gone, post_init schedules the pending jobs
BotRestart ==
    /\ btask' = [j \in 1..MaxJobs |-> IF j \in get_pending_jobs THEN "sched" ELSE "none"]
    /\ btask' # btask
    /\ UNCHANGED <<now, jobs, files, disk, wpc, wjob, recovered, download_failures, md_failed, bk, att, messages, message_files, md_messages, up, loc, md_complete, sv>>

---------------------------------------------------------------------------
Outcomes == {"ok", "mismatch", "fail"}

WorkerStep(w) ==
    \/ WorkerStart(w)
    \/ PickJob(w)
    \/ PickNone(w)
    \/ Wake(w)
    \/ WorkerCheck(w)
    \/ WorkerCheckRaises(w)
    \/ \E o \in Outcomes : WorkerDownload(w, o)
    \/ WorkerFileDownloaded(w)
    \/ WorkerJobDone(w)
    \/ \E r \in BOOLEAN : WorkerLogDone(w, r)
    \/ WorkerHandler(w)
    \/ WorkerFileFailed(w)
    \/ WorkerCrash(w)

BotStep(j) ==
    \/ BotBegin(j)
    \/ \E o \in Outcomes : BotDownload(j, o)
    \/ BotFileDownloaded(j)
    \/ BotJobDone(j)
    \/ \E r \in BOOLEAN : BotLogDone(j, r)
    \/ BotFileFailed(j)
    \/ BotJobFailed(j)
    \/ \E r \in BOOLEAN : BotLogFailed(j, r)
    \/ BotException(j)

Next ==
    \/ Tick
    \/ \E f \in Files : Ingest(f)
    \/ \E w \in Workers : WorkerStep(w)
    \/ \E j \in JobIds : BotStep(j)
    \/ BotRestart

Spec == Init /\ [][Next]_vars

\* two worker processes, one file sighted
NextWorkers ==
    \/ Tick
    \/ Ingest("fA")
    \/ \E w \in Workers : WorkerStep(w)

SpecWorkers == Init /\ [][NextWorkers]_vars

\* one worker process, two files sighted
NextFiles ==
    \/ Tick
    \/ \E f \in Files : Ingest(f)
    \/ WorkerStep("w1")

SpecFiles == Init /\ [][NextFiles]_vars

\* the ingesting process alone, downloading in its background tasks
NextBot ==
    \/ Tick
    \/ \E f \in Files : Ingest(f)
    \/ \E j \in JobIds : BotStep(j)
    \/ BotRestart

SpecBot == Init /\ [][NextBot]_vars

\* the ingesting process alone: message handler and background download tasks
NextIngest ==
    \/ \E m \in Msgs : HandleMessage(m)
    \/ \E j \in JobIds : BotStep(j)
    \/ BotRestart

SpecIngest == Init /\ [][NextIngest]_vars

\* the ingesting process configured with the remote sink only
NextRemote ==
    \/ NextIngest
    \/ \E j \in JobIds : \E ok \in BOOLEAN : BotFileSaved(j, ok)

SpecRemote == Init /\ [][NextRemote]_vars

\* the ingesting process while it stays up: the event loop runs every task that can run
NextIngestLive ==
    \/ \E m \in Msgs : HandleMessage(m)
    \/ \E j \in JobIds : BotStep(j)

SpecIngestLive ==
    /\ Init
    /\ [][NextIngestLive]_vars
    /\ \A j \in 1..MaxJobs : WF_vars(j \in JobIds /\ BotStep(j))

\* the steps of a worker process that stays alive
WorkerRuns(w) ==
    \/ WorkerStart(w)
    \/ PickJob(w)
    \/ PickNone(w)
    \/ Wake(w)
    \/ WorkerCheck(w)
    \/ WorkerCheckRaises(w)
    \/ \E o \in Outcomes : WorkerDownload(w, o)
    \/ WorkerFileDownloaded(w)
    \/ WorkerJobDone(w)
    \/ \E r \in BOOLEAN : WorkerLogDone(w, r)
    \/ WorkerHandler(w)
    \/ WorkerFileFailed(w)

\* the clock seen by running workers: processing a job and the 5 s poll sleep are
\* shorter than one step of the clock, so a step passes only when every worker
\* is polling (about to call pick_and_lock_job, or asleep) and nothing is eligible
TickIdle ==
    /\ \A w \in Workers : wpc[w] \in {"loop", "sleep"}
    /\ PickCandidates = {}
    /\ Tick

\* workers that keep running while time advances
NextLive ==
    \/ TickIdle
    \/ \E f \in Files : Ingest(f)
    \/ \E w \in Workers : WorkerRuns(w)

SpecLive ==
    /\ Init
    /\ [][NextLive]_vars
    /\ WF_vars(TickIdle)
    /\ \A w \in Workers : WF_vars(WorkerRuns(w))

\* what a download attempt is given: how each method will end, and the provenance of the
\* message.  A source row exists only for a chat id other than 0 (handle_message upserts the
\* source only then), so a username comes with a chat id
AttemptInputs ==
    {i \in [primary : {"ok", "error", "empty_error"},
            tdl : {"ok", "error", "empty_error"},
            username : {"", "chan"},
            source_chat_id : {0, -1005, -5, 5},
            original_message_id : {0, 77}] : i.username # "" => i.source_chat_id # 0}

InitChain ==
    /\ InitStore
    /\ bk = NoBackoff
    /\ att \in [by : {"none"}, inp : AttemptInputs]
    /\ sv = NoSave
    /\ up = NoUpsert
    /\ loc = NoLocate

\* process_download_job of the ingesting process: download_file, then the failure class
BotAttempt ==
    /\ att.by = "none"
    /\ LET out == download_file(att.inp) IN
         att' = [by |-> "bot", inp |-> att.inp, out |-> out,
                 error_type |-> IF out.success THEN None
                                ELSE error_type(out.bot_api_error, out.tdl_error)]
    /\ UNCHANGED <<now, jobs, files, disk, wpc, wjob, recovered, btask, download_failures, md_failed, bk, messages, message_files, md_messages, up, loc, md_complete, sv>>

\* process_job of the worker: download_with_tdl
WorkerAttempt ==
    /\ att.by = "none"
    /\ att' = [by |-> "worker", inp |-> att.inp, out |-> download_with_tdl(att.inp)]
    /\ UNCHANGED <<now, jobs, files, disk, wpc, wjob, recovered, btask, download_failures, md_failed, bk, messages, message_files, md_messages, up, loc, md_complete, sv>>

NextChain ==
    \/ BotAttempt
    \/ WorkerAttempt

SpecChain == InitChain /\ [][NextChain]_vars

\* calculate_backoff called on two attempt counts drawn from 0..MaxBackoffAttempts
InitBackoff ==
    /\ InitStore
    /\ att = NoAttempt
    /\ sv = NoSave
    /\ up = NoUpsert
    /\ loc = NoLocate
    /\ bk \in [attempts : 0..MaxBackoffAttempts, later : 0..MaxBackoffAttempts,
                backoff : {NoTime}, backoff_later : {NoTime}]

ApplyBackoff ==
    /\ bk.backoff = NoTime
    /\ bk' = [bk EXCEPT !.backoff = calculate_backoff(bk.attempts),
                        !.backoff_later = calculate_backoff(bk.later)]
    /\ UNCHANGED <<now, jobs, files, disk, wpc, wjob, recovered, btask, download_failures, md_failed, att, messages, message_files, md_messages, up, loc, md_complete, sv>>

NextBackoff == ApplyBackoff

SpecBackoff == InitBackoff /\ [][NextBackoff]_vars

\* the rows upsert_file can find: none, or a row written by an earlier upsert_file and
\* possibly by update_file_downloaded or update_file_failed
FileRows ==
    {NoRow} \cup
    {[status |-> st, last_seen_file_id |-> "h1", file_size |-> sz, mime_type |-> mt,
      original_name |-> nm,
      local_path |-> IF st = "DOWNLOADED" THEN "/files/p" ELSE None,
      local_size |-> IF st = "DOWNLOADED" THEN 5 ELSE NullInt,
      sha256 |-> IF st = "DOWNLOADED" THEN "hash" ELSE None] :
        st \in {"NEW", "DOWNLOADED", "FAILED"}, sz \in {NullInt, 5},
        mt \in {None, "video/mp4"}, nm \in {None, "a.mp4"}}

\* the arguments of a later sighting of the file
UpsertArgs ==
    [last_seen_file_id : {"h2"}, file_size : {NullInt, 5, 6},
     mime_type : {None, "application/octet-stream"}, original_name : {None, "b.mp4"}]

InitUpsert ==
    /\ InitStore
    /\ bk = NoBackoff
    /\ att = NoAttempt
    /\ sv = NoSave
    /\ loc = NoLocate
    /\ up \in [by : {"none"}, row : FileRows, args : UpsertArgs]

ApplyUpsert ==
    /\ up.by = "none"
    /\ up' = [by |-> "upsert_file", row |-> up.row, args |-> up.args,
              out |-> upsert_file(up.row, up.args)]
    /\ UNCHANGED <<now, jobs, files, disk, wpc, wjob, recovered, btask, download_failures, md_failed, bk, att, messages, message_files, md_messages, loc, md_complete, sv>>

NextUpsert == ApplyUpsert

SpecUpsert == InitUpsert /\ [][NextUpsert]_vars

\* get_archive_path called for two files of one source: content ids over Telegram's
\* base64url alphabet, declared names absent, plain, with characters that are removed, or
\* sanitizing to the empty string
InitLocate ==
    /\ InitStore
    /\ bk = NoBackoff
    /\ att = NoAttempt
    /\ sv = NoSave
    /\ up = NoUpsert
    /\ loc \in [by : {"none"},
                 title : {<<>>, <<"T">>},
                 file_unique_id : {<<"A", "B">>, <<"C", "D">>, <<"A", "B", "_", "_", "C", "D">>},
                 other_id : {<<"A", "B">>, <<"C", "D">>, <<"A", "B", "_", "_", "C", "D">>},
                 original_name : {<<>>, <<"C", "D">>, <<"C", "D", ".", "b", "i", "n">>,
                                  <<"#", " ", "C", " ", "D">>, <<"#", "?">>},
                 other_name : {<<>>, <<"C", "D">>, <<"C", "D", ".", "b", "i", "n">>,
                               <<"#", " ", "C", " ", "D">>, <<"#", "?">>}]

ApplyLocate ==
    /\ loc.by = "none"
    /\ loc' = [by |-> "get_archive_path", title |-> loc.title,
               file_unique_id |-> loc.file_unique_id, original_name |-> loc.original_name,
               other_id |-> loc.other_id, other_name |-> loc.other_name,
               path |-> get_archive_path("channel", -1005, loc.title, loc.file_unique_id,
                                         loc.original_name),
               other_path |-> get_archive_path("channel", -1005, loc.title, loc.other_id,
                                               loc.other_name)]
    /\ UNCHANGED <<now, jobs, files, disk, wpc, wjob, recovered, btask, download_failures, md_failed, bk, att, messages, message_files, md_messages, up, md_complete, sv>>

SpecLocate == InitLocate /\ [][ApplyLocate]_vars

TypeOK ==
    /\ now \in 0..MaxTime
    /\ Len(jobs) <= MaxJobs
    /\ \A j \in JobIds : jobs[j].status \in {"QUEUED", "RUNNING", "RETRY", "DONE", "FAILED"}

\* save_file in process_download_job, for every storage configuration and every result of
\* the download, of upload_to_webdav and of local_path.unlink()
SaveInputs ==
    [by : {"none"}, STORAGE_MODES : SUBSET {"local", "webdav"}, WEBDAV_ENABLED : BOOLEAN,
     downloaded : BOOLEAN, upload_ok : BOOLEAN, unlink_ok : BOOLEAN]

InitSave ==
    /\ InitStore
    /\ bk = NoBackoff
    /\ att = NoAttempt
    /\ up = NoUpsert
    /\ loc = NoLocate
    /\ sv \in SaveInputs

\* process_download_job after download_file: on success save_file, whose result is not
\* looked at, then update_file_downloaded; on failure update_file_failed
ApplySave ==
    /\ sv.by = "none"
    /\ LET cfg == StorageConfig(sv.STORAGE_MODES, sv.WEBDAV_ENABLED)
           r == save_file(cfg, sv.upload_ok, sv.unlink_ok)
       IN sv' = [by |-> "process_download_job",
                 STORAGE_MODES |-> sv.STORAGE_MODES, WEBDAV_ENABLED |-> sv.WEBDAV_ENABLED,
                 downloaded |-> sv.downloaded, upload_ok |-> sv.upload_ok,
                 unlink_ok |-> sv.unlink_ok,
                 cfg |-> cfg,
                 success |-> sv.downloaded /\ r.success,
                 deleted |-> sv.downloaded /\ r.deleted,
                 local |-> sv.downloaded /\ ~r.deleted,
                 remote |-> sv.downloaded /\ r.uploaded,
                 status |-> IF sv.downloaded THEN "DOWNLOADED" ELSE "FAILED"]
    /\ UNCHANGED <<now, jobs, files, disk, wpc, wjob, recovered, btask, download_failures, md_failed, bk, att, messages, message_files, md_messages, up, loc, md_complete>>

SpecSave == InitSave /\ [][ApplySave]_vars

---------------------------------------------------------------------------
(* Steps of the worker, as seen from outside *)

\* worker w's pick_and_lock_job returns a job in this step
ClaimStep(w) == wpc[w] = "loop" /\ wpc'[w] = "check"

\* worker w's pick_and_lock_job returns None in this step
NoneStep(w) == wpc[w] = "loop" /\ wpc'[w] = "sleep"

\* worker w runs recover_stale_jobs in this step
StartStep(w) == wpc[w] = "init" /\ wpc'[w] = "loop"

\* worker w runs the except block of process_job in this step
HandlerStep(w) == wpc[w] = "handler" /\ wpc'[w] # "handler" /\ wpc'[w] # "crashed"

LockAge(j) == now - jobs[j].locked_at

ActiveJobs(f) == {j \in JobIds : jobs[j].file_id = f /\ jobs[j].status \in ActiveStatus}

---------------------------------------------------------------------------
(* C1: in every reachable state each File has at most one Job whose status *)
(* is QUEUED, RUNNING or RETRY.                                            *)
C1_OneActiveJobPerFile == \A f \in Files : Cardinality(ActiveJobs(f)) <= 1

\* a second job of the file is active while a worker still works on the first, finished one
C1_Witness ==
    \E w \in Workers : \E j \in JobIds :
        /\ wjob[w].id # 0 /\ wjob[w].id # j
        /\ jobs[wjob[w].id].file_id = jobs[j].file_id
        /\ jobs[wjob[w].id].status \in {"DONE", "FAILED"}
        /\ jobs[j].status \in ActiveStatus

(* C2: when several workers call pick_and_lock_job and one job is eligible, *)
(* exactly one caller receives it (the job was eligible, is now RUNNING and *)
(* locked by that caller, its attempts are one more, nothing is eligible    *)
(* any longer and no other worker's held job changes); a caller receives    *)
(* None only when no job is eligible.                                       *)
C2_ClaimExactlyOnce ==
    [][\A w \in Workers :
          /\ ClaimStep(w) =>
                LET j == wjob'[w].id IN
                /\ jobs[j].status \in {"QUEUED", "RETRY"}
                /\ jobs'[j].status = "RUNNING"
                /\ jobs'[j].locked_by = w
                /\ jobs'[j].attempts = jobs[j].attempts + 1
                /\ \A k \in JobIds \ {j} : jobs'[k] = jobs[k]
                /\ \A v \in Workers \ {w} : wjob'[v] = wjob[v]
                /\ Cardinality({k \in JobIds : Eligible(k)}) = 1 => PickCandidates' = {}
          /\ NoneStep(w) =>
                /\ {k \in JobIds : Eligible(k)} = {}
                /\ jobs' = jobs
                /\ wjob'[w] = NoJob]_vars

\* two workers polled at the same instant for the only job: one holds it, the other sleeps
C2_Witness ==
    /\ Len(jobs) = 1
    /\ jobs[1].status = "RUNNING" /\ jobs[1].attempts = 1 /\ jobs[1].locked_at = now
    /\ \E w, v \in Workers :
          /\ w # v
          /\ jobs[1].locked_by = w /\ wjob[w].id = 1
          /\ wpc[v] = "sleep" /\ wjob[v] = NoJob

(* C3: at any instant at most one download is in flight for a given File,  *)
(* counting the background tasks of the ingesting process and the workers. *)
InFlight(f) ==
    Cardinality({w \in Workers : wpc[w] = "download" /\ wjob[w].file_id = f})
    + Cardinality({j \in JobIds : btask[j] = "download" /\ jobs[j].file_id = f})

C3_OneDownloadPerFile == \A f \in Files : InFlight(f) <= 1

(* C4: a Job's status changes only along QUEUED->RUNNING, RETRY->RUNNING,   *)
(* RUNNING->DONE, RUNNING->RETRY and RUNNING->FAILED; DONE and FAILED are   *)
(* never left.                                                              *)
AllowedTransitions ==
    {<<"QUEUED", "RUNNING">>, <<"RETRY", "RUNNING">>, <<"RUNNING", "DONE">>,
     <<"RUNNING", "RETRY">>, <<"RUNNING", "FAILED">>}

C4_StatusTransitions ==
    [][\A j \in JobIds :
          jobs'[j].status # jobs[j].status
             => <<jobs[j].status, jobs'[j].status>> \in AllowedTransitions]_vars

(* C5: each successful claim returns a job that is eligible (QUEUED or      *)
(* RETRY, available_at <= now) and has the smallest created_at among the    *)
(* eligible jobs; a claim returns None only if no job is eligible, so an    *)
(* older job that is not yet eligible never blocks a younger eligible one.  *)
C5_OldestEligibleFirst ==
    [][\A w \in Workers :
          /\ ClaimStep(w) =>
                LET j == wjob'[w].id IN
                /\ jobs[j].status \in {"QUEUED", "RETRY"}
                /\ jobs[j].available_at <= now
                /\ \A k \in JobIds :
                      (jobs[k].status \in {"QUEUED", "RETRY"} /\ jobs[k].available_at <= now)
                         => jobs[j].created_at <= jobs[k].created_at
          /\ NoneStep(w) =>
                \A k \in JobIds :
                    ~(jobs[k].status \in {"QUEUED", "RETRY"} /\ jobs[k].available_at <= now)]_vars

\* the younger job was claimed while the older one waits for its retry time
C5_Witness ==
    \E j, k \in JobIds :
        /\ jobs[k].created_at < jobs[j].created_at
        /\ jobs[k].status = "RETRY" /\ jobs[k].available_at > now
        /\ jobs[j].status = "RUNNING" /\ jobs[j].locked_at = now
        /\ jobs[j].locked_at > jobs[k].created_at
        /\ \E w \in Workers : wjob[w].id = j /\ wpc[w] = "check"

\* worker w's update_job_retry is applied in this step
RetryApplied(w) == wpc[w] = "handler" /\ wpc'[w] = "loop"

StaleSeconds == STALE_JOB_MINUTES * 60

C7_RecoverStale ==
    [][\A w \in Workers :
          StartStep(w) =>
             /\ Len(jobs') = Len(jobs)
             /\ \A j \in JobIds :
                   /\ (jobs[j].status = "RUNNING" /\ jobs[j].locked_at # NoTime
                          /\ LockAge(j) > StaleSeconds)
                        => jobs'[j] = [jobs[j] EXCEPT !.status = "RETRY", !.available_at = now]
                   /\ (jobs[j].status # "RUNNING"
                          \/ (jobs[j].locked_at # NoTime /\ LockAge(j) < StaleSeconds))
                        => jobs'[j] = jobs[j]
                   /\ jobs'[j].attempts = jobs[j].attempts
             /\ recovered'[w] = Cardinality({j \in JobIds : jobs'[j] # jobs[j]})]_vars

\* a worker has just started and recovered one job, which is eligible now
C7_Witness ==
    \E w \in Workers : \E j \in JobIds :
        /\ wpc[w] = "loop" /\ recovered[w] = 1
        /\ jobs[j].status = "RETRY" /\ jobs[j].available_at = now
        /\ jobs[j].last_error = "null" /\ jobs[j].attempts = 1
        /\ now - jobs[j].locked_at > StaleSeconds

(* C8: a worker runs stale recovery at startup, once (startup is never      *)
(* re-entered, and only a startup or a retry update moves a job from        *)
(* RUNNING to RETRY) and before it locks any job; the recovery returns      *)
(* each RUNNING job with a lock older than the threshold to RETRY, eligible *)
(* at once, and the next claim returns it if it is the oldest eligible job. *)
C8_RecoveryAtStartup ==
    [][/\ \A w \in Workers :
            /\ wpc[w] # "init" => wpc'[w] # "init"
            /\ \A j \in JobIds :
                  (jobs'[j].locked_by = w /\ jobs[j].locked_by # w) => wpc[w] = "loop"
            /\ (wpc[w] = "init" /\ wpc'[w] # "init") =>
                  /\ wjob'[w] = NoJob
                  /\ \A j \in JobIds :
                        (jobs[j].status = "RUNNING" /\ jobs[j].locked_at # NoTime
                            /\ LockAge(j) > StaleSeconds)
                          => /\ jobs'[j].status = "RETRY"
                             /\ jobs'[j].available_at <= now'
                             /\ (\A k \in JobIds :
                                    (jobs'[k].status \in {"QUEUED", "RETRY"}
                                        /\ jobs'[k].available_at <= now')
                                      => jobs'[j].created_at <= jobs'[k].created_at)
                                   => j \in PickCandidates'
       /\ \A j \in JobIds :
            (jobs[j].status = "RUNNING" /\ jobs'[j].status = "RETRY")
               => \/ \E w \in Workers : StartStep(w)
                  \/ \E w \in Workers : RetryApplied(w) /\ wjob[w].id = j]_vars

\* the job a crashed worker left RUNNING is held by the worker that started later
C8_Witness ==
    \E w, v \in Workers : \E j \in JobIds :
        /\ wpc[w] = "crashed"
        /\ wpc[v] = "check" /\ wjob[v].id = j /\ recovered[v] = 1
        /\ jobs[j].status = "RUNNING" /\ jobs[j].locked_by = v
        /\ jobs[j].attempts = 2 /\ jobs[j].last_error = "null"

(* C9: with maximum attempts M a job whose download attempts all fail is    *)
(* marked FAILED as the outcome of its M-th failed attempt and is in RETRY  *)
(* after each of the first M-1: when the worker holding the lock handles    *)
(* the failure of the job's n-th claim, no download of the file ever having *)
(* succeeded, the job becomes FAILED if n >= M and RETRY if n < M.          *)
C9_FailedAtMaxAttempts ==
    [][\A w \in Workers :
          (HandlerStep(w) /\ jobs[wjob[w].id].status = "RUNNING"
               /\ jobs[wjob[w].id].locked_by = w
               /\ disk[wjob[w].file_id] = "none")
            => LET j == wjob[w].id IN
               /\ jobs[j].attempts >= MAX_ATTEMPTS => jobs'[j].status = "FAILED"
               /\ jobs[j].attempts < MAX_ATTEMPTS => jobs'[j].status = "RETRY"]_vars

(* C10: a job is marked FAILED only if its attempts have reached the        *)
(* configured maximum: no failure path marks it FAILED below the maximum.   *)
C10_FailedOnlyAtMax ==
    \A j \in JobIds : jobs[j].status = "FAILED" => jobs[j].attempts >= MAX_ATTEMPTS

(* C11: backoff(attempts) = min(2^attempts * 30, 21600) seconds: for        *)
(* attempts 0..10 it is 30, 60, 120, 240, 480, 960, 1920, 3840, 7680,       *)
(* 15360, 21600; it is non-decreasing in attempts and never above 21600.    *)
C11_BackoffTable ==
    bk.backoff # NoTime =>
        /\ bk.attempts <= 10 =>
               bk.backoff = <<30, 60, 120, 240, 480, 960, 1920, 3840, 7680, 15360, 21600>>[bk.attempts + 1]
        /\ bk.backoff <= 21600
        /\ bk.backoff >= 30
        /\ bk.attempts <= bk.later => bk.backoff <= bk.backoff_later
        /\ bk.attempts = bk.later => bk.backoff = bk.backoff_later

\* the cap is reached at 10 attempts and kept at 12
C11_Witness ==
    /\ bk.attempts = 10 /\ bk.backoff = 21600
    /\ bk.later = 12 /\ bk.backoff_later = 21600

\* no process is working on job j and no worker has died
Settled(j) ==
    /\ \A w \in Workers : wjob[w].id # j /\ wpc[w] # "crashed"
    /\ btask[j] \in {"none", "sched"}

(* C12: whenever a Job becomes FAILED, by any path, the File it is bound to *)
(* has status FAILED at that point: in the step that marks the job FAILED   *)
(* the file is FAILED, or the same worker marks it FAILED as its next       *)
(* statement.                                                               *)
C12_FileFailedWithJob ==
    [][\A j \in JobIds :
          (jobs[j].status # "FAILED" /\ jobs'[j].status = "FAILED")
             => \/ files'[jobs[j].file_id].status = "FAILED"
                \/ \E w \in Workers : wpc'[w] = "fail_file" /\ wjob'[w].id = j]_vars

(* C13: each Job that becomes FAILED has produced exactly one FailureRecord *)
(* and exactly one FAILED block in the audit log once its processing has    *)
(* returned; a job that ends in RETRY or DONE has no FailureRecord.         *)
C13_OneFailureRecord ==
    \A j \in JobIds :
        Settled(j) =>
           /\ jobs[j].status = "FAILED" => download_failures[j] = 1 /\ md_failed[j] = 1
           /\ jobs[j].status \in {"RETRY", "DONE"} => download_failures[j] = 0

\* the File is DOWNLOADED and its stored artifact exists with the declared size
Verifiable(f) == files[f].status = "DOWNLOADED" /\ files[f].local_path /\ disk[f] = "good"

(* C14: processing a job whose File is already DOWNLOADED and whose stored  *)
(* artifact exists with the declared size marks the Job DONE without        *)
(* starting a download, without writing the archive path and without        *)
(* changing the File row, in the worker and in the background task of the   *)
(* ingesting process.                                                       *)
C14_ShortCircuit ==
    [][/\ \A w \in Workers :
            (wpc[w] = "check" /\ wpc'[w] \in {"loop", "download"} /\ Verifiable(wjob[w].file_id))
               => /\ wpc'[w] = "loop"
                  /\ jobs'[wjob[w].id].status = "DONE"
                  /\ disk' = disk /\ files' = files
       /\ \A j \in JobIds :
            (btask[j] = "sched" /\ btask'[j] \notin {"sched", "none"} /\ Verifiable(jobs[j].file_id))
               => /\ btask'[j] # "download"
                  /\ jobs'[j].status = "DONE"
                  /\ disk' = disk /\ files' = files]_vars

(* C15: a File is set to DOWNLOADED only if the stored artifact has the     *)
(* declared size: a transfer that reports success but leaves a file of      *)
(* another size is handled as a download failure, on every download path.   *)
C15_VerifiedBeforeDownloaded ==
    [][\A f \in Files :
          (files[f].status # "DOWNLOADED" /\ files'[f].status = "DOWNLOADED") => disk'[f] = "good"]_vars

RetrySpan == (Pow2(MAX_ATTEMPTS) - 1) * BackoffBase

\* jobs created up to here can exhaust their retries before the clock of the model ends
LiveHorizon == MaxTime - RetrySpan

Attempted == att.by # "none"

\* position of the first call of method m in the attempt, 0 if it was not invoked
CallOf(m) ==
    LET c == att.out.calls IN
    IF \E i \in 1..Len(c) : c[i] = m THEN CHOOSE i \in 1..Len(c) : c[i] = m ELSE 0

(* C18: in a download attempt the primary method (Bot API) is always tried  *)
(* first; the secondary method (tdl) is invoked only after the primary has  *)
(* failed; when the primary succeeds the secondary is never invoked and the *)
(* outcome reports the primary method with no errors.                       *)
C18_PrimaryFirst ==
    Attempted =>
        /\ CallOf("bot_api") = 1
        /\ CallOf("tdl") # 0 => (CallOf("tdl") = 2 /\ att.inp.primary # "ok")
        /\ att.inp.primary = "ok" =>
               /\ CallOf("tdl") = 0
               /\ att.out.success /\ att.out.method = "bot_api"
               /\ att.out.bot_api_error = None /\ att.out.tdl_error = None

\* the error with which an attempt that could not build the message URL ends
LocatorError ==
    IF att.by = "bot" THEN att.out.tdl_error = "Cannot build message URL"
    ELSE att.out.error = "No original message info available for tdl download"

(* C19: when the primary method has failed (or, in the worker, is not part  *)
(* of the attempt) and no original-message id is available, the external    *)
(* tool is not invoked at all and the attempt fails with the                *)
(* cannot-build-locator error.                                              *)
C19_NoLocatorNoTool ==
    (Attempted /\ FalsyInt(att.inp.original_message_id) /\ ~(att.by = "bot" /\ att.inp.primary = "ok"))
       => /\ CallOf("tdl") = 0
          /\ ~att.out.success
          /\ LocatorError

\* the Bot API failed for a message of a public channel without original-message id
C19_Witness ==
    /\ att.by = "bot" /\ att.inp.primary = "error"
    /\ att.inp.original_message_id = 0 /\ att.inp.username = "chan" /\ att.inp.tdl = "ok"
    /\ att.out.calls = <<"bot_api">> /\ ~att.out.success
    /\ att.out.tdl_error = "Cannot build message URL"

(* C20: a failed attempt of download_file is classified BOTH_FAILED exactly *)
(* when both methods were invoked and both failed, and                      *)
(* PRIMARY_FAILED_SECONDARY_SKIPPED exactly when the primary failed and the *)
(* secondary was skipped because no locator could be built.                 *)
C20_FailureClass ==
    (att.by = "bot" /\ ~att.out.success) =>
        /\ att.error_type = "BOTH_FAILED" <=> att.out.calls = <<"bot_api", "tdl">>
        /\ att.error_type = "PRIMARY_FAILED_SECONDARY_SKIPPED" <=> att.out.calls = <<"bot_api">>


\* the chat id of a t.me/c/ URL: the decimal chat id without a leading "-100", or else without a leading "-"
ChatIdInUrl(c) ==
    IF c <= -1000 /\ startswith(str(c), <<"-", "1", "0", "0">>) THEN DropFirst(str(c), 4)
    ELSE IF c < 0 THEN Digits(0 - c)
    ELSE Digits(c)

\* the attempt got as far as building the message URL
UrlBuilt == Attempted /\ ~(att.by = "bot" /\ att.inp.primary = "ok")

(* C21: given an original-message id m, the locator built for tdl is        *)
(* https://t.me/h/m when the source has a public handle h, and otherwise    *)
(* https://t.me/c/<id>/m where <id> is the chat id without a leading        *)
(* "-100", or else without a leading "-"; fm.build_message_url (used by     *)
(* download_file) and worker.download_with_tdl build the same URL for the   *)
(* same provenance.                                                         *)
C21_LocatorUrl ==
    (UrlBuilt /\ att.inp.original_message_id # 0 /\ att.inp.source_chat_id # 0) =>
        att.out.message_url =
            IF att.inp.username # ""
            THEN <<"https://t.me/", att.inp.username, "/">> \o Digits(att.inp.original_message_id)
            ELSE <<"https://t.me/c/">> \o ChatIdInUrl(att.inp.source_chat_id) \o <<"/">>
                     \o Digits(att.inp.original_message_id)

\* the worker built https://t.me/c/5/77 for message 77 of the private supergroup -1005
C21_Witness ==
    /\ att.by = "worker" /\ att.inp.username = "" /\ att.inp.source_chat_id = -1005
    /\ att.inp.original_message_id = 77
    /\ att.out.message_url = <<"https://t.me/c/", "5", "/", "7", "7">>


---------------------------------------------------------------------------
(* Ingestion, as seen from outside *)

\* the small-file threshold of the specification, in MB; no setting of config.py and no
\* line of handle_message corresponds to it
SMALL_FILE_THRESHOLD == 20

\* the content ids of the attachments of message m
FilesOf(m) == {file_infos(m)[i].file_unique_id : i \in 1..Len(file_infos(m))}

\* handle_message has just recorded message m
Ingested(m) == m \notin messages /\ m \in messages'

\* the already-downloaded check of handle_message passes for file f
AlreadyDownloaded(f) == files[f].status = "DOWNLOADED" /\ files[f].local_path /\ disk[f] # "none"

(* C22: ingesting an attachment whose declared size is below the small-file *)
(* threshold (5 MB with threshold 20 MB) downloads it during ingestion:     *)
(* when the handler is done the File is DOWNLOADED (FAILED if the inline    *)
(* download failed) and no Job row has been created for it.                 *)
C22_SmallFileInline ==
    [][\A m \in Msgs : \A f \in FilesOf(m) :
          (Ingested(m) /\ file_size(f) < SMALL_FILE_THRESHOLD /\ ~AlreadyDownloaded(f)) =>
              /\ files'[f].status \in {"DOWNLOADED", "FAILED"}
              /\ jobs' = jobs]_vars

(* C23: ingesting an attachment at or above the threshold (50 MB with       *)
(* threshold 20 MB) of a File not seen before leaves the File NEW and       *)
(* creates exactly one QUEUED Job for it; once a message is recorded,       *)
(* ingesting it again adds no Message, MessageFile or Job row.              *)
C23_LargeFileQueued ==
    [][\A m \in Msgs :
          /\ \A f \in FilesOf(m) :
                (Ingested(m) /\ file_size(f) >= SMALL_FILE_THRESHOLD /\ files[f].status = "ABSENT") =>
                    /\ files'[f].status = "NEW"
                    /\ Len(jobs') = Len(jobs) + 1
                    /\ jobs'[Len(jobs')].file_id = f /\ jobs'[Len(jobs')].status = "QUEUED"
          /\ m \in messages =>
                /\ m \in messages'
                /\ {l \in message_files' : l[1] = m} = {l \in message_files : l[1] = m}]_vars

(* C24: ingestion of a new message does not wait for a download: the        *)
(* handler only schedules tasks, it starts no download and writes no        *)
(* artifact; the Message row and its links stay recorded whatever the       *)
(* download tasks do afterwards, and a step of a download task changes      *)
(* File, Job and failure records only.                                      *)
C24_IngestionNeverBlocks ==
    [][/\ \A m \in Msgs : Ingested(m) =>
              /\ disk' = disk
              /\ \A j \in 1..MaxJobs : btask'[j] # btask[j] => btask'[j] = "sched"
       /\ messages \subseteq messages' /\ message_files \subseteq message_files'
       /\ (\E j \in 1..MaxJobs : btask'[j] # btask[j] /\ btask[j] # "none") =>
              /\ messages' = messages /\ message_files' = message_files
              /\ md_messages' = md_messages]_vars

\* message m1 is recorded with its link and audit entry, its download failed (File and Job
\* FAILED), and the download of message m2 is still running
C24_Witness ==
    /\ {"m1", "m2"} \subseteq messages /\ "m1" \in md_messages
    /\ <<"m1", "fA", "document">> \in message_files
    /\ files["fA"].status = "FAILED"
    /\ \E j \in JobIds : jobs[j].file_id = "fA" /\ jobs[j].status = "FAILED"
    /\ \E j \in JobIds : jobs[j].file_id = "fB" /\ btask[j] = "download"

(* C26: insert_job, called by the handler for a file that is not already    *)
(* downloaded, appends a QUEUED job with attempts 0 when the file has no    *)
(* job in QUEUED, RUNNING or RETRY (it may have DONE or FAILED jobs); when   *)
(* the file has such a job the jobs table is left as it was; in both cases  *)
(* no error reaches the handler, which goes on to its audit entry.          *)
C26_InsertJob ==
    [][\A m \in Msgs : \A f \in FilesOf(m) :
          (Ingested(m) /\ source_chat_id(m) # 0 /\ ~AlreadyDownloaded(f)) =>
              /\ m \in md_messages'
              /\ IF ActiveJobs(f) = {}
                 THEN /\ Len(jobs') = Len(jobs) + 1
                      /\ SubSeq(jobs', 1, Len(jobs)) = jobs
                      /\ jobs'[Len(jobs')].file_id = f
                      /\ jobs'[Len(jobs')].status = "QUEUED"
                      /\ jobs'[Len(jobs')].attempts = 0
                 ELSE jobs' = jobs]_vars

\* file fA, whose first job FAILED, was sighted again in message m3 with two attachments:
\* one new QUEUED job, the second insert_job found it and added nothing
C26_Witness ==
    /\ {"m1", "m3"} \subseteq messages /\ "m3" \in md_messages
    /\ Len(jobs) = 2
    /\ jobs[1].file_id = "fA" /\ jobs[1].status = "FAILED"
    /\ jobs[2].file_id = "fA" /\ jobs[2].status = "QUEUED"


\* the tasks inside "async with download_semaphore"
InSection == {j \in 1..MaxJobs : btask[j] \notin {"none", "sched"}}

(* C25: the number of background download tasks inside the download section *)
(* never exceeds MAX_CONCURRENT_DOWNLOADS, and because every task leaves    *)
(* the section on success, failure and exception, every scheduled task      *)
(* eventually enters it.                                                    *)
C25_DownloadLimit ==
    /\ [](Cardinality(InSection) <= MAX_CONCURRENT_DOWNLOADS)
    /\ \A j \in 1..MaxJobs : (btask[j] = "sched") ~> (j \in InSection)

\* the limit is reached: one task is downloading and the task of the other job waits
C25_Witness ==
    /\ Cardinality(InSection) = MAX_CONCURRENT_DOWNLOADS
    /\ \E j, k \in JobIds : btask[j] = "download" /\ btask[k] = "sched"


---------------------------------------------------------------------------
\* upsert_file has been applied to a row that existed
Upserted == up.by = "upsert_file" /\ up.row.status # "ABSENT"

(* C27: upsert_file on an existing content id always replaces the stored    *)
(* handle; size, MIME type and declared name change only where the stored   *)
(* value is null (a stored non-null value is never overwritten, a null one  *)
(* takes the value of the sighting); status, local path, local size and     *)
(* hash are left unchanged.                                                 *)
C27_UpsertFillsNullOnly ==
    Upserted =>
        /\ up.out.last_seen_file_id = up.args.last_seen_file_id
        /\ up.out.file_size = IF up.row.file_size # NullInt THEN up.row.file_size ELSE up.args.file_size
        /\ up.out.mime_type = IF up.row.mime_type # None THEN up.row.mime_type ELSE up.args.mime_type
        /\ up.out.original_name =
               IF up.row.original_name # None THEN up.row.original_name ELSE up.args.original_name
        /\ up.out.status = up.row.status /\ up.out.local_path = up.row.local_path
        /\ up.out.local_size = up.row.local_size /\ up.out.sha256 = up.row.sha256


---------------------------------------------------------------------------
(* C28: get_archive_path is a function of its arguments, and for one source *)
(* type, chat id and title two different content ids never get the same     *)
(* path, whatever the declared names are (equal, absent, or sanitizing to   *)
(* the empty string).                                                       *)
C28_LocateInjective ==
    (loc.by = "get_archive_path" /\ loc.file_unique_id # loc.other_id) => loc.path # loc.other_path


---------------------------------------------------------------------------
(* C29: the archive path of a File is written only by the task that holds   *)
(* the lock of the File's active job: a worker whose download has just      *)
(* written the archive path is, at that moment, the locked_by of a RUNNING  *)
(* job, also after stale recovery has returned the job to RETRY and another *)
(* worker has claimed it.                                                   *)
C29_WriterHoldsLock ==
    [][\A w \in Workers :
          (wpc[w] = "download" /\ wpc'[w] = "file_upd") =>
              /\ jobs[wjob[w].id].status = "RUNNING"
              /\ jobs[wjob[w].id].locked_by = w]_vars

\* job j has just been marked DONE after a download, by a worker or a background task
DoneByDownload(j) ==
    /\ jobs[j].status # "DONE" /\ jobs'[j].status = "DONE"
    /\ \/ \E w \in Workers : wjob[w].id = j /\ wpc[w] = "job_done" /\ wpc'[w] = "log_done"
       \/ btask[j] = "job_done" /\ btask'[j] = "log_done"

(* C30: after a successful download the File is updated to DOWNLOADED with  *)
(* its local path before the Job is marked DONE, and the completion audit   *)
(* record is appended after both, in the worker and in the background task: *)
(* update_job_done is reached only from the File update and the audit       *)
(* append only from update_job_done; at the moment a job becomes DONE       *)
(* through a download its File is DOWNLOADED with a local path.             *)
C30_FileBeforeJobDone ==
    [][/\ \A j \in JobIds : DoneByDownload(j) =>
              /\ files'[jobs[j].file_id].status = "DOWNLOADED"
              /\ files'[jobs[j].file_id].local_path
       /\ \A w \in Workers :
              /\ (wpc'[w] = "job_done" /\ wpc[w] # "job_done") =>
                     /\ wpc[w] = "file_upd"
                     /\ files'[wjob[w].file_id].status = "DOWNLOADED"
              /\ (wpc'[w] = "log_done" /\ wpc[w] # "log_done") =>
                     (wpc[w] = "job_done" /\ jobs'[wjob[w].id].status = "DONE")
       /\ \A j \in JobIds :
              /\ (btask'[j] = "job_done" /\ btask[j] # "job_done") =>
                     /\ btask[j] = "file_upd"
                     /\ files'[jobs[j].file_id].status = "DOWNLOADED"
              /\ (btask'[j] = "log_done" /\ btask[j] # "log_done") =>
                     (btask[j] = "job_done" /\ jobs'[j].status = "DONE")]_vars


---------------------------------------------------------------------------
(* C31: every Job that has reached DONE has exactly one COMPLETE block and  *)
(* every Job that has reached FAILED exactly one FAILED block in the audit  *)
(* log, once no task is working on the job any more; a COMPLETE block is in *)
(* the month file of the received time of the job's message, not of the     *)
(* completion time; blocks are only appended, never rewritten.              *)
C31_OneAuditBlock ==
    /\ [](\A j \in JobIds : Settled(j) =>
             /\ jobs[j].status = "DONE" =>
                    md_complete[j] = <<get_markdown_path(jobs[j].created_at)>>
             /\ jobs[j].status = "FAILED" => md_failed[j] = 1)
    /\ [][\A j \in 1..MaxJobs :
             /\ Len(md_complete'[j]) >= Len(md_complete[j])
             /\ SubSeq(md_complete'[j], 1, Len(md_complete[j])) = md_complete[j]
             /\ md_failed'[j] >= md_failed[j]]_vars


---------------------------------------------------------------------------
(* C32: the download fallback chain writes nothing to the metadata store:   *)
(* over a call of download_file, whatever its outcome, the Message, File,   *)
(* MessageFile, Job and failure-record rows stay as they were.              *)
C32_ChainWritesNoRow ==
    [][(\E j \in JobIds : btask[j] = "download" /\ btask'[j] \in {"file_upd", "fail_file"}) =>
          /\ jobs' = jobs /\ files' = files
          /\ messages' = messages /\ message_files' = message_files
          /\ download_failures' = download_failures]_vars

\* download_file has failed for the job of message m2: the rows are those written by the
\* handler and update_job_running, no failure is recorded yet
C32_Witness ==
    /\ "m2" \in messages /\ <<"m2", "fB", "document">> \in message_files
    /\ \E j \in JobIds :
          /\ btask[j] = "fail_file" /\ jobs[j].file_id = "fB" /\ jobs[j].status = "RUNNING"
          /\ download_failures[j] = 0
    /\ files["fB"].status = "NEW"


(* C33: ingesting a new message whose File is DOWNLOADED with its artifact  *)
(* still in place records the MessageFile links and creates no Job and      *)
(* schedules no download; ingesting one whose File is DOWNLOADED but whose  *)
(* artifact is gone (and that has no active job) creates one new QUEUED     *)
(* Job for the File and schedules its download.                             *)
C33_SkipOrRequeue ==
    [][\A m \in Msgs : \A f \in FilesOf(m) : Ingested(m) =>
          /\ AlreadyDownloaded(f) =>
                /\ \A i \in 1..Len(file_infos(m)) : <<m, f, file_infos(m)[i].kind>> \in message_files'
                /\ jobs' = jobs /\ btask' = btask /\ disk' = disk
          /\ (files[f].status = "DOWNLOADED" /\ disk[f] = "none" /\ ActiveJobs(f) = {}) =>
                /\ Len(jobs') = Len(jobs) + 1
                /\ jobs'[Len(jobs')].file_id = f /\ jobs'[Len(jobs')].status = "QUEUED"
                /\ btask'[Len(jobs')] = "sched"]_vars


(* C34: ingesting a new message that references a FAILED File with no       *)
(* active job creates one new QUEUED Job for the File and schedules its     *)
(* download; and when a job completes by a successful download its File,    *)
(* FAILED until then or not, is DOWNLOADED.                                 *)
C34_FailedFileRequeued ==
    /\ [][\A m \in Msgs : \A f \in FilesOf(m) :
             (Ingested(m) /\ files[f].status = "FAILED" /\ ActiveJobs(f) = {}) =>
                 /\ Len(jobs') = Len(jobs) + 1
                 /\ jobs'[Len(jobs')].file_id = f /\ jobs'[Len(jobs')].status = "QUEUED"
                 /\ btask'[Len(jobs')] = "sched"]_vars
    /\ [][\A j \in JobIds :
             (jobs[j].status # "DONE" /\ jobs'[j].status = "DONE") =>
                 files'[jobs[j].file_id].status = "DOWNLOADED"]_vars


(* C35: a job is inserted with attempts 0; a step changes the stored         *)
(* attempts of a job only when a worker claims it, and then by exactly 1     *)
(* (retry, stale recovery, completion and failure leave it alone); and when   *)
(* a worker that still holds the lock of its job decides between retry and    *)
(* terminal failure, the attempts value it compares is the stored one.        *)
C35_AttemptsCountClaims ==
    /\ [][\A j \in DOMAIN jobs' :
             IF j \in JobIds
             THEN jobs'[j].attempts = jobs[j].attempts +
                      (IF \E w \in Workers : ClaimStep(w) /\ wjob'[w].id = j THEN 1 ELSE 0)
             ELSE jobs'[j].attempts = 0]_vars
    /\ [][\A w \in Workers :
             (HandlerStep(w) /\ jobs[wjob[w].id].status = "RUNNING" /\ jobs[wjob[w].id].locked_by = w) =>
                 wjob[w].attempts = jobs[wjob[w].id].attempts]_vars


(* C36: when a worker runs update_job_done, update_job_retry or              *)
(* update_job_failed for a job whose lock is by then held by another worker  *)
(* (stale recovery returned the job to RETRY and the other worker claimed    *)
(* it), the update leaves the job's status, available_at and last_error as   *)
(* they were.                                                                *)
C36_LateUpdateIgnored ==
    [][\A w \in Workers :
          LET j == wjob[w].id IN
          (/\ \/ wpc[w] = "job_done" /\ wpc'[w] = "log_done"
              \/ HandlerStep(w)
           /\ j \in JobIds
           /\ jobs[j].locked_by \in Workers \ {w}) =>
              /\ jobs'[j].status = jobs[j].status
              /\ jobs'[j].available_at = jobs[j].available_at
              /\ jobs'[j].last_error = jobs[j].last_error]_vars


(* C37: the except block of process_job leaves a job that is DONE as DONE   *)
(* (it moves it neither to RETRY nor to FAILED) and a File that is           *)
(* DOWNLOADED as DOWNLOADED: a job marked DONE with its File DOWNLOADED is   *)
(* still so when process_job returns, also when the audit append raised.     *)
C37_DoneSurvivesAuditFailure ==
    [][\A w \in Workers :
          LET j == wjob[w].id IN
          (j \in JobIds /\ wpc[w] \in {"handler", "fail_file"} /\ wpc'[w] \notin {wpc[w], "crashed"}) =>
              /\ jobs[j].status = "DONE" => jobs'[j].status = "DONE"
              /\ files[jobs[j].file_id].status = "DOWNLOADED" =>
                     files'[jobs[j].file_id].status = "DOWNLOADED"]_vars


\* job j is RUNNING and no live worker process is working on it
Abandoned(j) == jobs[j].status = "RUNNING" /\ \A w \in Workers : wjob[w].id # j

(* C38: a job abandoned in RUNNING is claimed by no worker and stays         *)
(* RUNNING in every step, except the startup sweep of a worker process that  *)
(* starts when the job's lock age exceeds the threshold, which returns it    *)
(* to RETRY; a worker that is past its startup never does.                   *)
C38_AbandonedUntilStartup ==
    [][\A j \in JobIds : Abandoned(j) =>
          /\ \A w \in Workers : ClaimStep(w) => wjob'[w].id # j
          /\ \/ jobs'[j] = jobs[j]
             \/ /\ \E w \in Workers : StartStep(w)
                /\ LockAge(j) > StaleSeconds
                /\ jobs'[j].status = "RETRY"]_vars

\* the worker that claimed job j died, the lock is older than the threshold, and the other
\* worker, started before, is polling: the job is still RUNNING
C38_Witness ==
    \E j \in JobIds : \E w, v \in Workers :
        /\ Abandoned(j) /\ LockAge(j) > StaleSeconds
        /\ jobs[j].locked_by = w /\ wpc[w] = "crashed"
        /\ wpc[v] = "sleep"


\* message m carries the same content id under two attachment kinds
TwoKinds(m) ==
    /\ Len(file_infos(m)) = 2
    /\ file_infos(m)[1].file_unique_id = file_infos(m)[2].file_unique_id
    /\ file_infos(m)[1].kind # file_infos(m)[2].kind

(* C39: ingesting a new message with two attachments of the same content id *)
(* (the File not downloaded and without an active job) gives one File row,  *)
(* one MessageFile link per attachment kind, exactly one new QUEUED Job and *)
(* one scheduled download for the File, and the handler completes with its  *)
(* audit entry: the second insert_job finds the index taken.                *)
C39_TwoKindsOneJob ==
    [][\A m \in Msgs : \A f \in FilesOf(m) :
          (Ingested(m) /\ TwoKinds(m) /\ ~AlreadyDownloaded(f) /\ ActiveJobs(f) = {}) =>
              /\ files'[f].status \in {"NEW", files[f].status}
              /\ {l \in message_files' : l[1] = m} =
                     {<<m, f, file_infos(m)[i].kind>> : i \in 1..2}
              /\ Len(jobs') = Len(jobs) + 1
              /\ jobs'[Len(jobs')].file_id = f /\ jobs'[Len(jobs')].status = "QUEUED"
              /\ {j \in 1..MaxJobs : btask'[j] # btask[j]} = {Len(jobs')}
              /\ btask'[Len(jobs')] = "sched"
              /\ ~IndexOk(Append(jobs', JobRow(f)))
              /\ m \in md_messages']_vars


(* C40: save_file deletes the local copy only when the local sink is         *)
(* disabled, the remote sink is enabled and the upload succeeded; every     *)
(* configuration enables at least one sink; and a File recorded DOWNLOADED  *)
(* has its artifact in at least one enabled sink.                           *)
C40_PersistedBeforeDownloaded ==
    sv.by = "process_download_job" =>
        /\ sv.deleted => (~sv.cfg.SAVE_TO_LOCAL /\ sv.cfg.SAVE_TO_WEBDAV /\ sv.upload_ok)
        /\ sv.cfg.SAVE_TO_LOCAL \/ sv.cfg.SAVE_TO_WEBDAV
        /\ sv.status = "DOWNLOADED" =>
               \/ sv.cfg.SAVE_TO_LOCAL /\ sv.local
               \/ sv.cfg.SAVE_TO_WEBDAV /\ sv.remote

====
